---- MODULE Spec2Model ----
(***************************************************************************)
(* Model of the unit_conversion crate: the energy module                   *)
(* (src/src/energy/mod.rs) and the length module (src/src/length/mod.rs).  *)
(*                                                                         *)
(* The crate's values are Rust f64.  They are modelled as IEEE-754         *)
(* binary64 numbers: a sign, a 53-bit significand and a binary exponent,   *)
(* with every product and quotient rounded to nearest, ties to even, as    *)
(* the f64 operators * and / do.  TLC's integers are 32 bits wide, so the  *)
(* significands are kept as little-endian sequences of 14-bit limbs.       *)
(* The inputs stay inside the normal range of binary64 (no overflow to     *)
(* infinity, no subnormal results).                                        *)
(***************************************************************************)
EXTENDS Integers, Sequences, FiniteSets, TLC

(***************************************************************************)
(* Natural numbers of any size: <<l1, ..., ln>> is l1 + l2*Base + ...,     *)
(* with no zero limb at the top; << >> is 0.                               *)
(***************************************************************************)
LimbBits == 14
Base == 2 ^ LimbBits

Pow2(k) == 2 ^ k

RECURSIVE BNorm(_)
BNorm(a) ==
    IF a = << >> THEN << >>
    ELSE IF a[Len(a)] = 0 THEN BNorm(SubSeq(a, 1, Len(a) - 1))
    ELSE a

BLimb(a, i) == IF i <= Len(a) THEN a[i] ELSE 0

RECURSIVE BCmpFrom(_, _, _)
BCmpFrom(a, b, i) ==
    IF i = 0 THEN 0
    ELSE IF a[i] > b[i] THEN 1
    ELSE IF a[i] < b[i] THEN -1
    ELSE BCmpFrom(a, b, i - 1)

\* -1, 0 or 1 as a < b, a = b or a > b.
BCmp(a, b) ==
    IF Len(a) > Len(b) THEN 1
    ELSE IF Len(a) < Len(b) THEN -1
    ELSE BCmpFrom(a, b, Len(a))

RECURSIVE BAddFrom(_, _, _, _, _)
BAddFrom(a, b, i, n, carry) ==
    IF i > n THEN (IF carry = 0 THEN << >> ELSE <<carry>>)
    ELSE LET s == BLimb(a, i) + BLimb(b, i) + carry
         IN  <<s % Base>> \o BAddFrom(a, b, i + 1, n, s \div Base)

BAdd(a, b) == BAddFrom(a, b, 1, IF Len(a) > Len(b) THEN Len(a) ELSE Len(b), 0)

RECURSIVE BSubFrom(_, _, _, _)
BSubFrom(a, b, i, borrow) ==
    IF i > Len(a) THEN << >>
    ELSE LET d == a[i] - BLimb(b, i) - borrow
         IN  IF d < 0 THEN <<d + Base>> \o BSubFrom(a, b, i + 1, 1)
             ELSE <<d>> \o BSubFrom(a, b, i + 1, 0)

\* a - b, for a >= b.
BSub(a, b) == BNorm(BSubFrom(a, b, 1, 0))

RECURSIVE BMulSmallFrom(_, _, _, _)
BMulSmallFrom(a, k, i, carry) ==
    IF i > Len(a) THEN (IF carry = 0 THEN << >> ELSE <<carry>>)
    ELSE LET p == a[i] * k + carry
         IN  <<p % Base>> \o BMulSmallFrom(a, k, i + 1, p \div Base)

\* a * k, for 0 <= k <= Base.
BMulSmall(a, k) == IF k = 0 THEN << >> ELSE BMulSmallFrom(a, k, 1, 0)

BShlLimbs(a, q) == IF a = << >> THEN << >> ELSE [i \in 1..q |-> 0] \o a

RECURSIVE BMulFrom(_, _, _)
BMulFrom(a, b, i) ==
    IF i > Len(b) THEN << >>
    ELSE BAdd(BShlLimbs(BMulSmall(a, b[i]), i - 1), BMulFrom(a, b, i + 1))

BMul(a, b) == BMulFrom(a, b, 1)

\* a * 2^k
BShl(a, k) == BShlLimbs(BMulSmall(a, Pow2(k % LimbBits)), k \div LimbBits)

\* a \div 2^k
BShr(a, k) ==
    LET q == k \div LimbBits
        r == k % LimbBits
        n == Len(a) - q
    IN  IF n <= 0 THEN << >>
        ELSE BNorm([i \in 1..n |->
                      (a[i + q] \div Pow2(r))
                      + (BLimb(a, i + q + 1) % Pow2(r)) * Pow2(LimbBits - r)])

RECURSIVE SmallBitLen(_)
SmallBitLen(x) == IF x = 0 THEN 0 ELSE 1 + SmallBitLen(x \div 2)

BBitLen(a) ==
    IF a = << >> THEN 0 ELSE LimbBits * (Len(a) - 1) + SmallBitLen(a[Len(a)])

BOdd(a) == a # << >> /\ a[1] % 2 = 1

RECURSIVE BFromNat(_)
BFromNat(x) == IF x = 0 THEN << >> ELSE <<x % Base>> \o BFromNat(x \div Base)

BSquare(a) == BMul(a, a)

\* 10^n, by squaring.
RECURSIVE BPow10(_)
BPow10(n) ==
    IF n = 0 THEN <<1>>
    ELSE IF n % 2 = 1 THEN BMulSmall(BSquare(BPow10(n \div 2)), 10)
    ELSE BSquare(BPow10(n \div 2))

\* The number a sequence of decimal digits writes: the upper half of the
\* digits, shifted, plus the lower half.
RECURSIVE BFromDigits(_)
BFromDigits(ds) ==
    IF ds = << >> THEN << >>
    ELSE IF Len(ds) = 1 THEN BFromNat(ds[1])
    ELSE LET h == Len(ds) \div 2
         IN  BAdd(BMul(BFromDigits(SubSeq(ds, 1, h)), BPow10(Len(ds) - h)),
                  BFromDigits(SubSeq(ds, h + 1, Len(ds))))

\* The quotient digit r \div d by bisection, for lo * d <= r < hi * d.
RECURSIVE BDigit(_, _, _, _)
BDigit(r, d, lo, hi) ==
    IF hi - lo <= 1 THEN lo
    ELSE LET mid == (lo + hi) \div 2
         IN  IF BCmp(BMulSmall(d, mid), r) <= 0
             THEN BDigit(r, d, mid, hi)
             ELSE BDigit(r, d, lo, mid)

\* Long division, one limb of the quotient a step from limb j down to limb 1:
\* r \div d, for r < d * Base^j.
RECURSIVE BDivLimbs(_, _, _)
BDivStep(r, d, j, digit) ==
    BDivLimbs(BSub(r, BMulSmall(BShlLimbs(d, j - 1), digit)), d, j - 1)
        \o <<digit>>

BDivLimbs(r, d, j) ==
    IF j = 0 THEN << >>
    ELSE BDivStep(r, d, j, BDigit(r, BShlLimbs(d, j - 1), 0, Base))

\* n \div d, for n < d * Base^limbs.
BDiv(n, d, limbs) == BNorm(BDivLimbs(n, d, limbs))

(***************************************************************************)
(* binary64.  A finite number is [s, e, m]: (-1)^s * m * 2^e with          *)
(* 2^52 <= m < 2^53, or m = << >> (and e = 0) for a zero.                  *)
(***************************************************************************)
MantBits == 53

\* Limbs that hold a quotient of MantBits + 3 bits.
QuotLimbs == (MantBits + 3 + LimbBits - 1) \div LimbBits

FZero(s) == [s |-> s, e |-> 0, m |-> << >>]

IsZero(x) == x.m = << >>

\* n * 2^e rounded to MantBits bits, to nearest, ties to even; n has more than
\* MantBits bits and sticky says that bits below n were already cut off.
RoundNat(s, n, e, sticky) ==
    LET extra == BBitLen(n) - MantBits
        g     == BShr(n, extra - 1)
        m     == BShr(g, 1)
        inexact == sticky \/ BShl(g, extra - 1) # n
        up    == BOdd(g) /\ (inexact \/ BOdd(m))
        m2    == IF up THEN BAdd(m, <<1>>) ELSE m
    IN  IF BBitLen(m2) > MantBits
        THEN [s |-> s, e |-> e + extra + 1, m |-> BShr(m2, 1)]
        ELSE [s |-> s, e |-> e + extra, m |-> m2]

\* (n / d) * 2^e, correctly rounded; n and d are positive.
RoundRatio(s, n, d, e) ==
    LET k  == (MantBits + 2) - (BBitLen(n) - BBitLen(d))
        n2 == IF k >= 0 THEN BShl(n, k) ELSE n
        d2 == IF k >= 0 THEN d ELSE BShl(d, -k)
        q  == BDiv(n2, d2, QuotLimbs)
    IN  RoundNat(s, q, e - k, BMul(q, d2) # n2)

\* The f64 operator *.
fmul(a, b) ==
    LET sign == (a.s + b.s) % 2
    IN  IF IsZero(a) \/ IsZero(b) THEN FZero(sign)
        ELSE RoundNat(sign, BMul(a.m, b.m), a.e + b.e, FALSE)

\* The f64 operator /, for a divisor that is not zero.
fdiv(a, b) ==
    LET sign == (a.s + b.s) % 2
    IN  IF IsZero(a) THEN FZero(sign)
        ELSE RoundRatio(sign, a.m, b.m, a.e - b.e)

\* The f64 a decimal literal denotes: digits * 10^exp10, correctly rounded.
Lit(digits, exp10) ==
    LET n == BFromDigits(digits)
    IN  IF n = << >> THEN FZero(0)
        ELSE IF exp10 >= 0 THEN RoundRatio(0, BMul(n, BPow10(exp10)), <<1>>, 0)
        ELSE RoundRatio(0, n, BPow10(-exp10), 0)

\* The f64 of an integer.
FromInt(i) ==
    IF i = 0 THEN FZero(0)
    ELSE IF i < 0 THEN RoundRatio(1, BFromNat(-i), <<1>>, 0)
    ELSE RoundRatio(0, BFromNat(i), <<1>>, 0)

\* The f64 operator ==: the two zeros are equal.
FEq(a, b) == a = b \/ (IsZero(a) /\ IsZero(b))

\* |big - small| * 2^k <= big, for significands on one exponent.
CloseNat(big, small, k) == BCmp(BShl(BSub(big, small), k), big) <= 0

\* a and b agree to a relative error of 2^-k, computed exactly:
\* |a - b| <= 2^-k * max(|a|, |b|).
Close(a, b, k) ==
    IF IsZero(a) \/ IsZero(b) THEN IsZero(a) /\ IsZero(b)
    ELSE /\ a.s = b.s
         /\ a.e - b.e \in {-1, 0, 1}
         /\ LET lo == IF a.e < b.e THEN a.e ELSE b.e
                am == BShl(a.m, a.e - lo)
                bm == BShl(b.m, b.e - lo)
            IN  IF BCmp(am, bm) >= 0 THEN CloseNat(am, bm, k)
                ELSE CloseNat(bm, am, k)

(***************************************************************************)
(* The result of a call: the f64 it returns, or the panic that unwinds the *)
(* calling thread, with its message.                                       *)
(***************************************************************************)
NoValue == FZero(0)

Returned(v) == [kind |-> "value", val |-> v, msg |-> << >>]

Panicked(message) == [kind |-> "panic", val |-> NoValue, msg |-> message]

NoOutcome == [kind |-> "none", val |-> NoValue, msg |-> << >>]

(***************************************************************************)
(* src/src/energy/mod.rs                                                   *)
(***************************************************************************)
EV_REC_CENTIMETRES_CONVERSION_FACTOR == Lit(<<8, 0, 6, 5, 5, 4, 3, 9, 3, 7>>, -6)

REC_CENTIMETRES_EV_CONVERSION_FACTOR ==
    fmul(Lit(<<1, 2, 3, 9, 8, 4, 1, 9, 8, 4, 3, 3, 2>>, -12), Lit(<<1, 0>>, -8))

energy_unity(energy_in_arb) == Returned(energy_in_arb)

ev_2_rcm(energy_in_ev) ==
    Returned(fmul(energy_in_ev, EV_REC_CENTIMETRES_CONVERSION_FACTOR))

\* A variant of rcm_2_ev that divides by the factor of the other direction.
rcm_2_ev_by_reciprocal(energy_in_rcm) ==
    Returned(fdiv(energy_in_rcm, EV_REC_CENTIMETRES_CONVERSION_FACTOR))

rcm_2_ev(energy_in_rcm) ==
    Returned(fmul(energy_in_rcm, REC_CENTIMETRES_EV_CONVERSION_FACTOR))

\* The construction blocks: the insertions each makes, in order.
CONVERT_2_RCM_FROM ==
    << <<"rcm", "energy::unity">>, <<"eV", "energy::ev_2_rcm">> >>

CONVERT_2_EV_FROM ==
    << <<"eV", "energy::unity">>, <<"rcm", "energy::rcm_2_ev">> >>

\* A call through an energy Callback, fn(f64) -> f64.
EnergyCallback(f, v) ==
    CASE f = "energy::unity"    -> energy_unity(v)
      [] f = "energy::ev_2_rcm" -> ev_2_rcm(v)
      [] f = "energy::rcm_2_ev" -> rcm_2_ev(v)

(***************************************************************************)
(* src/src/length/mod.rs                                                   *)
(***************************************************************************)
BOHR_RADIUS_TO_METRES == Lit(<<5, 2, 9, 1, 7, 7, 2, 1, 0, 9, 0, 3>>, -22)
CENTI == Lit(<<1>>, -2)
MILLI == Lit(<<1>>, -3)
MIKRO == Lit(<<1>>, -6)
NANO == Lit(<<1>>, -9)
PICO == Lit(<<1>>, -12)

\* A variant of unity that rejects the prefixes bohr_to_metres rejects.
length_unity_checking_prefix(v, prefix) ==
    IF prefix \in {"pm", "nm", "mu", "mm", "cm", "m"} THEN Returned(v)
    ELSE Panicked(<<"Unkown prefix ", prefix>>)

length_unity(v, prefix) == Returned(v)

\* A variant of bohr_to_metres whose default arm returns plain metres.
bohr_to_metres_defaulting(b, prefix) ==
    CASE prefix = "pm" -> Returned(fdiv(fmul(b, BOHR_RADIUS_TO_METRES), PICO))
      [] prefix = "nm" -> Returned(fdiv(fmul(b, BOHR_RADIUS_TO_METRES), NANO))
      [] prefix = "mu" -> Returned(fdiv(fmul(b, BOHR_RADIUS_TO_METRES), MIKRO))
      [] prefix = "mm" -> Returned(fdiv(fmul(b, BOHR_RADIUS_TO_METRES), MILLI))
      [] prefix = "cm" -> Returned(fdiv(fmul(b, BOHR_RADIUS_TO_METRES), CENTI))
      [] OTHER         -> Returned(fmul(b, BOHR_RADIUS_TO_METRES))

\* A variant of bohr_to_metres that scales the constant before it multiplies.
bohr_to_metres_scaling_first(b, prefix) ==
    CASE prefix = "pm" -> Returned(fmul(b, fdiv(BOHR_RADIUS_TO_METRES, PICO)))
      [] prefix = "nm" -> Returned(fmul(b, fdiv(BOHR_RADIUS_TO_METRES, NANO)))
      [] prefix = "mu" -> Returned(fmul(b, fdiv(BOHR_RADIUS_TO_METRES, MIKRO)))
      [] prefix = "mm" -> Returned(fmul(b, fdiv(BOHR_RADIUS_TO_METRES, MILLI)))
      [] prefix = "cm" -> Returned(fmul(b, fdiv(BOHR_RADIUS_TO_METRES, CENTI)))
      [] prefix = "m"  -> Returned(fmul(b, BOHR_RADIUS_TO_METRES))
      [] OTHER         -> Panicked(<<"Unkown prefix ", prefix>>)

\* A variant of bohr_to_metres whose panic does not name the prefix.
bohr_to_metres_silent_panic(b, prefix) ==
    CASE prefix = "pm" -> Returned(fdiv(fmul(b, BOHR_RADIUS_TO_METRES), PICO))
      [] prefix = "nm" -> Returned(fdiv(fmul(b, BOHR_RADIUS_TO_METRES), NANO))
      [] prefix = "mu" -> Returned(fdiv(fmul(b, BOHR_RADIUS_TO_METRES), MIKRO))
      [] prefix = "mm" -> Returned(fdiv(fmul(b, BOHR_RADIUS_TO_METRES), MILLI))
      [] prefix = "cm" -> Returned(fdiv(fmul(b, BOHR_RADIUS_TO_METRES), CENTI))
      [] prefix = "m"  -> Returned(fmul(b, BOHR_RADIUS_TO_METRES))
      [] OTHER         -> Panicked(<<"Unkown prefix">>)

bohr_to_metres(b, prefix) ==
    CASE prefix = "pm" -> Returned(fdiv(fmul(b, BOHR_RADIUS_TO_METRES), PICO))
      [] prefix = "nm" -> Returned(fdiv(fmul(b, BOHR_RADIUS_TO_METRES), NANO))
      [] prefix = "mu" -> Returned(fdiv(fmul(b, BOHR_RADIUS_TO_METRES), MIKRO))
      [] prefix = "mm" -> Returned(fdiv(fmul(b, BOHR_RADIUS_TO_METRES), MILLI))
      [] prefix = "cm" -> Returned(fdiv(fmul(b, BOHR_RADIUS_TO_METRES), CENTI))
      [] prefix = "m"  -> Returned(fmul(b, BOHR_RADIUS_TO_METRES))
      [] OTHER         -> Panicked(<<"Unkown prefix ", prefix>>)

\* The panic of the inner call, which cannot happen for "nm", would unwind
\* through this function.
MulOutcome(r, factor) ==
    IF r.kind = "value" THEN Returned(fmul(r.val, factor)) ELSE r

\* A variant of bohr_to_ang that hands its own prefix on.
bohr_to_ang_passing_prefix(b, prefix) ==
    MulOutcome(bohr_to_metres(b, prefix), Lit(<<1, 0, 0>>, -1))

bohr_to_ang(b, prefix) == MulOutcome(bohr_to_metres(b, "nm"), Lit(<<1, 0, 0>>, -1))

CONVERT_BOHR_TO_METRES ==
    << <<"bohr", "length::unity">>, <<"m", "length::bohr_to_metres">> >>

CONVERT_BOHR_TO_ANG ==
    << <<"bohr", "length::unity">>, <<"ang", "length::bohr_to_ang">> >>

\* A call through a length Callback, fn(f64, prefix: &str) -> f64.
LengthCallback(f, v, prefix) ==
    CASE f = "length::unity"          -> length_unity(v, prefix)
      [] f = "length::bohr_to_metres" -> bohr_to_metres(v, prefix)
      [] f = "length::bohr_to_ang"    -> bohr_to_ang(v, prefix)

(***************************************************************************)
(* The four lazy statics and their callers.                                *)
(***************************************************************************)
EnergyTables == {"CONVERT_2_RCM_FROM", "CONVERT_2_EV_FROM"}

LengthTables == {"CONVERT_BOHR_TO_METRES", "CONVERT_BOHR_TO_ANG"}

Tables == EnergyTables \cup LengthTables

\* The block that lazy_static! runs to build a table.
InitBlock(tb) ==
    CASE tb = "CONVERT_2_RCM_FROM"     -> CONVERT_2_RCM_FROM
      [] tb = "CONVERT_2_EV_FROM"      -> CONVERT_2_EV_FROM
      [] tb = "CONVERT_BOHR_TO_METRES" -> CONVERT_BOHR_TO_METRES
      [] tb = "CONVERT_BOHR_TO_ANG"    -> CONVERT_BOHR_TO_ANG

\* HashMap::new and HashMap::insert; a HashMap is a function on its keys.
EmptyMap == << >>

MapInsert(map, k, f) ==
    [j \in DOMAIN map \cup {k} |-> IF j = k THEN f ELSE map[j]]

\* Bounds of the model.
NThreads == 2
MaxNum == 3
MaxDen == 3
MaxChain == 2

Threads == 1..NThreads

MainThread == 1

\* The values the tests pass: 2.0 and 6000.0 (energy), 1.0 (length).
TestValues == {Lit(<<2>>, 0), Lit(<<6, 0, 0, 0>>, 0), Lit(<<1>>, 0)}

Values ==
    {fdiv(FromInt(i), FromInt(j)) : i \in (-MaxNum)..MaxNum, j \in 1..MaxDen}
        \cup TestValues

Prefixes == {"pm", "nm", "mu", "mm", "cm", "m", "km", "ang", "NM"}

Keys == {"rcm", "eV", "bohr", "m", "ang", "parsec", "ev"}

\* The smaller inputs of the threads that race.
ThreadValues == {Lit(<<1>>, 0)}

ThreadPrefixes == {"m", "km"}

ThreadKeys == {"eV", "bohr", "m", "parsec"}

None == "-"

NoArg == [v |-> NoValue, p |-> None]

VARIABLES
    once,    \* per table: the state of its std::sync::Once
    cell,    \* per table: the Option<HashMap> its Lazy holds
    builds,  \* per table: how many times its construction block was entered
    pc,      \* per thread: where it is
    tab,     \* per thread: the table it dereferences
    t,       \* per thread: the local `t` of the construction block it runs
    key,     \* per thread: the key it looked up
    fn,      \* per thread: the function the lookup gave
    arg,     \* per thread: the arguments of its call
    out,     \* per thread: how its lookup or call ended
    trail    \* per thread: the calls whose results it fed into the next call

vars == <<once, cell, builds, pc, tab, t, key, fn, arg, out, trail>>

shared == <<once, cell, builds>>

Init ==
    /\ once = [tb \in Tables |-> "INCOMPLETE"]
    /\ cell = [tb \in Tables |-> [some |-> FALSE, val |-> EmptyMap]]
    /\ builds = [tb \in Tables |-> 0]
    /\ pc = [th \in Threads |-> "idle"]
    /\ tab = [th \in Threads |-> None]
    /\ t = [th \in Threads |-> EmptyMap]
    /\ key = [th \in Threads |-> None]
    /\ fn = [th \in Threads |-> None]
    /\ arg = [th \in Threads |-> NoArg]
    /\ out = [th \in Threads |-> NoOutcome]
    /\ trail = [th \in Threads |-> << >>]

\* The thread names a table: Deref::deref enters Once::call_once.
Deref(th, tb) ==
    /\ pc[th] = "idle"
    /\ (trail[th] # << >> => tb \in EnergyTables)
    /\ pc' = [pc EXCEPT ![th] = "deref"]
    /\ tab' = [tab EXCEPT ![th] = tb]
    /\ UNCHANGED <<shared, t, key, fn, arg, out, trail>>

\* call_once finds the Once INCOMPLETE: this thread runs the block.  A thread
\* that finds it RUNNING waits.
\* A variant of OnceRun that also enters while another thread is RUNNING.
OnceRunUnguarded(th) ==
    /\ pc[th] = "deref"
    /\ once[tab[th]] # "COMPLETE"
    /\ once' = [once EXCEPT ![tab[th]] = "RUNNING"]
    /\ builds' = [builds EXCEPT ![tab[th]] = @ + 1]
    /\ pc' = [pc EXCEPT ![th] = "new"]
    /\ UNCHANGED <<cell, tab, t, key, fn, arg, out, trail>>

OnceRun(th) ==
    /\ pc[th] = "deref"
    /\ once[tab[th]] = "INCOMPLETE"
    /\ once' = [once EXCEPT ![tab[th]] = "RUNNING"]
    /\ builds' = [builds EXCEPT ![tab[th]] = @ + 1]
    /\ pc' = [pc EXCEPT ![th] = "new"]
    /\ UNCHANGED <<cell, tab, t, key, fn, arg, out, trail>>

\* call_once finds the Once COMPLETE: the thread reads the cell.
OnceDone(th) ==
    /\ pc[th] = "deref"
    /\ once[tab[th]] = "COMPLETE"
    /\ pc' = [pc EXCEPT ![th] = "have_table"]
    /\ UNCHANGED <<shared, tab, t, key, fn, arg, out, trail>>

\* let mut t = HashMap::new();
New(th) ==
    /\ pc[th] = "new"
    /\ t' = [t EXCEPT ![th] = EmptyMap]
    /\ pc' = [pc EXCEPT ![th] = "insert"]
    /\ UNCHANGED <<shared, tab, key, fn, arg, out, trail>>

\* t.insert(name, function as Callback); the block's next insertion.
Insert(th) ==
    /\ pc[th] = "insert"
    /\ LET block == InitBlock(tab[th])
           n     == Cardinality(DOMAIN t[th]) + 1
       IN  /\ t' = [t EXCEPT ![th] = MapInsert(@, block[n][1], block[n][2])]
           /\ pc' = [pc EXCEPT ![th] = IF n = Len(block) THEN "set" ELSE "insert"]
    /\ UNCHANGED <<shared, tab, key, fn, arg, out, trail>>

\* The block returns t, and the Lazy stores it: self.0.set(Some(t)).
SetCell(th) ==
    /\ pc[th] = "set"
    /\ cell' = [cell EXCEPT ![tab[th]] = [some |-> TRUE, val |-> t[th]]]
    /\ t' = [t EXCEPT ![th] = EmptyMap]
    /\ pc' = [pc EXCEPT ![th] = "complete"]
    /\ UNCHANGED <<once, builds, tab, key, fn, arg, out, trail>>

\* call_once returns: the Once is COMPLETE, and the thread reads the cell.
OnceComplete(th) ==
    /\ pc[th] = "complete"
    /\ once' = [once EXCEPT ![tab[th]] = "COMPLETE"]
    /\ pc' = [pc EXCEPT ![th] = "have_table"]
    /\ UNCHANGED <<cell, builds, tab, t, key, fn, arg, out, trail>>

\* TABLE[k]: Index::index on the HashMap, which panics for a key it lacks.
\* A variant of Lookup that answers a missing key with the first entry's
\* function instead of panicking.
LookupWithFallback(th, k) ==
    /\ pc[th] = "have_table"
    /\ cell[tab[th]].some
    /\ key' = [key EXCEPT ![th] = k]
    /\ IF k \in DOMAIN cell[tab[th]].val
       THEN fn' = [fn EXCEPT ![th] = cell[tab[th]].val[k]]
       ELSE fn' = [fn EXCEPT ![th] = InitBlock(tab[th])[1][2]]
    /\ pc' = [pc EXCEPT ![th] = "have_fn"]
    /\ UNCHANGED <<shared, tab, t, arg, out, trail>>

\* A variant of Lookup that inserts a missing key, as HashMap::entry would.
LookupInserting(th, k) ==
    /\ pc[th] = "have_table"
    /\ cell[tab[th]].some
    /\ key' = [key EXCEPT ![th] = k]
    /\ fn' = [fn EXCEPT ![th] = IF k \in DOMAIN cell[tab[th]].val
                                 THEN cell[tab[th]].val[k]
                                 ELSE InitBlock(tab[th])[1][2]]
    /\ cell' = [cell EXCEPT ![tab[th]].val = MapInsert(@, k, fn'[th])]
    /\ pc' = [pc EXCEPT ![th] = "have_fn"]
    /\ UNCHANGED <<once, builds, tab, t, arg, out, trail>>

Lookup(th, k) ==
    /\ pc[th] = "have_table"
    /\ cell[tab[th]].some
    /\ key' = [key EXCEPT ![th] = k]
    /\ IF k \in DOMAIN cell[tab[th]].val
       THEN /\ fn' = [fn EXCEPT ![th] = cell[tab[th]].val[k]]
            /\ pc' = [pc EXCEPT ![th] = "have_fn"]
            /\ out' = out
       ELSE /\ fn' = fn
            /\ pc' = [pc EXCEPT ![th] = "panicked"]
            /\ out' = [out EXCEPT ![th] = Panicked(<<"key not found">>)]
    /\ UNCHANGED <<shared, tab, t, arg, trail>>

\* How a call ends: the thread has the result, or has panicked.
AfterCall(th, v, p, r) ==
    /\ arg' = [arg EXCEPT ![th] = [v |-> v, p |-> p]]
    /\ out' = [out EXCEPT ![th] = r]
    /\ pc' = [pc EXCEPT ![th] = IF r.kind = "value" THEN "returned" ELSE "panicked"]
    /\ UNCHANGED <<shared, tab, t, key, fn, trail>>

\* TABLE[k](v), on an energy table; v is the caller's value or, in a chain,
\* the result of its last call.
CallEnergy(th, v) ==
    /\ pc[th] = "have_fn"
    /\ tab[th] \in EnergyTables
    /\ (trail[th] # << >> => v = trail[th][Len(trail[th])].res)
    /\ AfterCall(th, v, None, EnergyCallback(fn[th], v))

\* TABLE[k](v, prefix), on a length table.
CallLength(th, v, p) ==
    /\ pc[th] = "have_fn"
    /\ tab[th] \in LengthTables
    /\ AfterCall(th, v, p, LengthCallback(fn[th], v, p))

\* The caller feeds the energy it got into a further energy conversion.
Feed(th) ==
    /\ pc[th] = "returned"
    /\ tab[th] \in EnergyTables
    /\ Len(trail[th]) + 1 < MaxChain
    /\ trail' = [trail EXCEPT ![th] =
                   Append(@, [tb |-> tab[th], k |-> key[th],
                              v |-> arg[th].v, res |-> out[th].val])]
    /\ pc' = [pc EXCEPT ![th] = "idle"]
    /\ tab' = [tab EXCEPT ![th] = None]
    /\ key' = [key EXCEPT ![th] = None]
    /\ fn' = [fn EXCEPT ![th] = None]
    /\ arg' = [arg EXCEPT ![th] = NoArg]
    /\ out' = [out EXCEPT ![th] = NoOutcome]
    /\ UNCHANGED <<shared, t>>

\* One caller, the main thread.
Next ==
    \/ \E tb \in Tables : Deref(MainThread, tb)
    \/ OnceRun(MainThread)
    \/ OnceDone(MainThread)
    \/ New(MainThread)
    \/ Insert(MainThread)
    \/ SetCell(MainThread)
    \/ OnceComplete(MainThread)
    \/ \E k \in Keys : Lookup(MainThread, k)
    \/ \E v \in Values \cup {trail[MainThread][i].res : i \in DOMAIN trail[MainThread]} :
          CallEnergy(MainThread, v)
    \/ \E v \in Values, p \in Prefixes : CallLength(MainThread, v, p)
    \/ Feed(MainThread)

Spec == Init /\ [][Next]_vars

\* Several threads, each evaluating one TABLE[k](...) expression.
NextThreads ==
    \E th \in Threads :
        \/ \E tb \in Tables : Deref(th, tb)
        \/ OnceRun(th)
        \/ OnceDone(th)
        \/ New(th)
        \/ Insert(th)
        \/ SetCell(th)
        \/ OnceComplete(th)
        \/ \E k \in ThreadKeys : Lookup(th, k)
        \/ \E v \in ThreadValues : CallEnergy(th, v)
        \/ \E v \in ThreadValues, p \in ThreadPrefixes : CallLength(th, v, p)

SpecThreads == Init /\ [][NextThreads]_vars

(***************************************************************************)
(* The claims.                                                             *)
(***************************************************************************)
\* The thread has made its call: it holds the result, or the call panicked.
Called(th) == fn[th] # None /\ out[th].kind # "none"

\* The two unit names of each table, as the specification lists them.
UnitNames(tb) ==
    CASE tb = "CONVERT_2_RCM_FROM"     -> {"rcm", "eV"}
      [] tb = "CONVERT_2_EV_FROM"      -> {"rcm", "eV"}
      [] tb = "CONVERT_BOHR_TO_METRES" -> {"bohr", "m"}
      [] tb = "CONVERT_BOHR_TO_ANG"    -> {"bohr", "ang"}

\* The six prefixes the specification lists, and the scale of each.
RecognizedPrefixes == {"pm", "nm", "mu", "mm", "cm", "m"}

prefixScale(p) ==
    CASE p = "pm" -> Lit(<<1>>, -12)
      [] p = "nm" -> Lit(<<1>>, -9)
      [] p = "mu" -> Lit(<<1>>, -6)
      [] p = "mm" -> Lit(<<1>>, -3)
      [] p = "cm" -> Lit(<<1>>, -2)
      [] p = "m"  -> Lit(<<1>>, 0)

\* The thread called the function stored under k in table tb.
CalledEntry(th, tb, k) == Called(th) /\ tab[th] = tb /\ key[th] = k

\* C1: a lookup succeeds if and only if the key is one of the table's two
\* case-sensitive unit names; with any other key it signals key-not-found (the
\* Index panics) and yields neither a function nor a number.
LookupSucceedsIffUnitName ==
    \A th \in Threads :
        key[th] # None =>
            /\ (fn[th] # None <=> key[th] \in UnitNames(tab[th]))
            /\ (key[th] \notin UnitNames(tab[th]) =>
                    /\ pc[th] = "panicked"
                    /\ out[th] = Panicked(<<"key not found">>)
                    /\ arg[th] = NoArg)

LookupOfUnknownUnitSeen ==
    \E th \in Threads :
        /\ tab[th] = "CONVERT_2_EV_FROM"
        /\ key[th] = "ev"
        /\ pc[th] = "panicked"

\* C2: the function under "m" in CONVERT_BOHR_TO_METRES returns a number if
\* and only if its prefix is one of "pm", "nm", "mu", "mm", "cm", "m"; for any
\* other prefix, whatever the value, it panics and returns no number.
MetresReturnsIffRecognizedPrefix ==
    \A th \in Threads :
        CalledEntry(th, "CONVERT_BOHR_TO_METRES", "m") =>
            /\ (out[th].kind = "value" <=> arg[th].p \in RecognizedPrefixes)
            /\ (arg[th].p \notin RecognizedPrefixes =>
                    out[th].kind = "panic" /\ pc[th] = "panicked")

MetresCalledWithBadPrefix ==
    \E th \in Threads :
        /\ CalledEntry(th, "CONVERT_BOHR_TO_METRES", "m")
        /\ arg[th].p = "NM"
        /\ out[th].kind = "panic"

\* C3: CONVERT_2_RCM_FROM["eV"](x) is x * 8065.543937 and
\* CONVERT_2_EV_FROM["rcm"](x) is x * 1.239841984332e-7, one f64 product each;
\* the "rcm" entry of the first and the "eV" entry of the second return x.
EnergyIsLinearScaling ==
    \A th \in Threads :
        /\ CalledEntry(th, "CONVERT_2_RCM_FROM", "eV") =>
              out[th] = Returned(fmul(arg[th].v, Lit(<<8, 0, 6, 5, 5, 4, 3, 9, 3, 7>>, -6)))
        /\ CalledEntry(th, "CONVERT_2_RCM_FROM", "rcm") =>
              out[th] = Returned(arg[th].v)
        /\ CalledEntry(th, "CONVERT_2_EV_FROM", "rcm") =>
              out[th] = Returned(fmul(arg[th].v,
                                      Lit(<<1, 2, 3, 9, 8, 4, 1, 9, 8, 4, 3, 3, 2>>, -19)))
        /\ CalledEntry(th, "CONVERT_2_EV_FROM", "eV") =>
              out[th] = Returned(arg[th].v)

\* The source's own test: 6000 rcm in eV.
EnergyTestCallSeen ==
    \E th \in Threads :
        /\ CalledEntry(th, "CONVERT_2_EV_FROM", "rcm")
        /\ arg[th].v = Lit(<<6, 0, 0, 0>>, 0)
        /\ pc[th] = "returned"

\* What one multiplies a result for prefix p by to get the one for "pm".
RatioToPico(p) ==
    CASE p = "pm" -> Lit(<<1>>, 0)
      [] p = "nm" -> Lit(<<1>>, 3)
      [] p = "mu" -> Lit(<<1>>, 6)
      [] p = "mm" -> Lit(<<1>>, 9)
      [] p = "cm" -> Lit(<<1>>, 10)
      [] p = "m"  -> Lit(<<1>>, 12)

\* The relative error allowed where the claim multiplies results: 2^-51, two
\* units in the last place of an f64.
RatioBits == MantBits - 2

\* C4: for a recognized prefix p, CONVERT_BOHR_TO_METRES["m"](b, p) is
\* b * 5.29177210903e-11 / prefixScale(p), in f64.  Each result is the one
\* for "m" divided by prefixScale(p), so results for one b stand in the ratios
\* of the scales: exactly as quotients, and to the rounding of the last place
\* as the products pm = 1000*nm = ... = 1e12*m.  b = 1 gives 5.29177210903e-11
\* for "m" and 5.29177210903e-2 for "nm".
MetresIsScaledBohr ==
    \A th \in Threads :
        (CalledEntry(th, "CONVERT_BOHR_TO_METRES", "m")
            /\ arg[th].p \in RecognizedPrefixes) =>
            LET b == arg[th].v
                p == arg[th].p
                metres == fmul(b, Lit(<<5, 2, 9, 1, 7, 7, 2, 1, 0, 9, 0, 3>>, -22))
            IN  /\ out[th] = Returned(fdiv(metres, prefixScale(p)))
                /\ Close(fmul(out[th].val, RatioToPico(p)),
                         fdiv(metres, prefixScale("pm")), RatioBits)
                /\ (b = Lit(<<1>>, 0) /\ p = "m" =>
                        out[th].val = Lit(<<5, 2, 9, 1, 7, 7, 2, 1, 0, 9, 0, 3>>, -22))
                /\ (b = Lit(<<1>>, 0) /\ p = "nm" =>
                        out[th].val = Lit(<<5, 2, 9, 1, 7, 7, 2, 1, 0, 9, 0, 3>>, -13))

MetresNanoOfThirdSeen ==
    \E th \in Threads :
        /\ CalledEntry(th, "CONVERT_BOHR_TO_METRES", "m")
        /\ arg[th].p = "nm"
        /\ arg[th].v = fdiv(FromInt(1), FromInt(3))
        /\ pc[th] = "returned"

\* The map a construction block builds.
RECURSIVE MapOfBlock(_, _)
MapOfBlock(block, n) ==
    IF n = 0 THEN EmptyMap
    ELSE MapInsert(MapOfBlock(block, n - 1), block[n][1], block[n][2])

\* C5: for every value b and every prefix string, recognized or not,
\* CONVERT_BOHR_TO_ANG["ang"](b, p) does not panic and returns 10 times
\* CONVERT_BOHR_TO_METRES["m"](b, "nm"), whatever p is; that is
\* b * 5.29177210903e-11 * 1e10 to the rounding of the last place, and
\* 5.29177210903e-1 for b = 1.
AngIsTenTimesNano ==
    \A th \in Threads :
        CalledEntry(th, "CONVERT_BOHR_TO_ANG", "ang") =>
            LET b == arg[th].v
                metresEntry == MapOfBlock(CONVERT_BOHR_TO_METRES, 2)["m"]
                nano == LengthCallback(metresEntry, b, "nm")
            IN  /\ pc[th] = "returned"
                /\ nano.kind = "value"
                /\ out[th] = Returned(fmul(nano.val, Lit(<<1, 0>>, 0)))
                /\ Close(out[th].val,
                         fmul(fmul(b, Lit(<<5, 2, 9, 1, 7, 7, 2, 1, 0, 9, 0, 3>>, -22)),
                              Lit(<<1>>, 10)), RatioBits)
                /\ (b = Lit(<<1>>, 0) =>
                        out[th].val = Lit(<<5, 2, 9, 1, 7, 7, 2, 1, 0, 9, 0, 3>>, -12))

AngCalledWithUnknownPrefix ==
    \E th \in Threads :
        /\ CalledEntry(th, "CONVERT_BOHR_TO_ANG", "ang")
        /\ arg[th].p = "km"
        /\ arg[th].v = Lit(<<1>>, 0)
        /\ pc[th] = "returned"

\* C6: the "bohr" entries of CONVERT_BOHR_TO_METRES and CONVERT_BOHR_TO_ANG
\* return x unchanged for every prefix string, recognized or not, and never
\* panic.
BohrEntryIsIdentity ==
    \A th \in Threads :
        (Called(th) /\ tab[th] \in LengthTables /\ key[th] = "bohr") =>
            /\ pc[th] = "returned"
            /\ out[th] = Returned(arg[th].v)

BohrEntryCalledWithUnknownPrefix ==
    \E th \in Threads :
        /\ CalledEntry(th, "CONVERT_BOHR_TO_METRES", "bohr")
        /\ arg[th].p = "km"
        /\ arg[th].v = fdiv(FromInt(-2), FromInt(3))
        /\ pc[th] = "returned"

\* The relative tolerance of the round trip, 2^-26: half the digits of an
\* f64, far wider than the rounding of two products.
RoundTripBits == MantBits \div 2

\* C7: converting x from eV to rcm with CONVERT_2_RCM_FROM["eV"] and the
\* result back with CONVERT_2_EV_FROM["rcm"] returns x to within a relative
\* tolerance.
RoundTripReturnsOriginal ==
    \A th \in Threads :
        (/\ CalledEntry(th, "CONVERT_2_EV_FROM", "rcm")
         /\ Len(trail[th]) = 1
         /\ trail[th][1].tb = "CONVERT_2_RCM_FROM"
         /\ trail[th][1].k = "eV") =>
            /\ out[th].kind = "value"
            /\ Close(out[th].val, trail[th][1].v, RoundTripBits)

\* The call of CONVERT_BOHR_TO_METRES["m"] with a prefix that is not recognized.
MetresCalledWithUnknownPrefix(th) ==
    /\ CalledEntry(th, "CONVERT_BOHR_TO_METRES", "m")
    /\ arg[th].p \notin RecognizedPrefixes

\* C8, as stated: the caller of CONVERT_BOHR_TO_METRES["m"] with an unknown
\* prefix receives a recoverable InvalidPrefix error carrying the prefix, and
\* is not terminated.
UnknownPrefixIsRecoverableError ==
    \A th \in Threads :
        MetresCalledWithUnknownPrefix(th) =>
            /\ pc[th] # "panicked"
            /\ out[th].kind = "error"
            /\ \E i \in DOMAIN out[th].msg : out[th].msg[i] = arg[th].p

\* C8, amended: the call panics; the panic's message carries the offending
\* prefix, the caller gets no value and is unwound.
UnknownPrefixPanicsWithPrefix ==
    \A th \in Threads :
        MetresCalledWithUnknownPrefix(th) =>
            /\ pc[th] = "panicked"
            /\ out[th] = Panicked(<<"Unkown prefix ", arg[th].p>>)

UnknownPrefixKmSeen ==
    \E th \in Threads :
        /\ MetresCalledWithUnknownPrefix(th)
        /\ arg[th].p = "km"
        /\ arg[th].v = Lit(<<2>>, 0)

\* A step leaves every constructed table as it is, and after it the threads
\* that hold a function for one key of one table hold the same function.
TablesStay ==
    /\ \A tb \in Tables : cell[tb].some => cell'[tb] = cell[tb]
    /\ \A th1, th2 \in Threads :
          (/\ fn'[th1] # None
           /\ fn'[th2] # None
           /\ tab'[th1] = tab'[th2]
           /\ key'[th1] = key'[th2]) => fn'[th1] = fn'[th2]
    /\ \A th \in Threads :
          fn'[th] # None =>
              /\ key'[th] \in DOMAIN cell'[tab'[th]].val
              /\ cell'[tab'[th]].val[key'[th]] = fn'[th]

\* C9: a constructed table is frozen: whatever lookups and calls follow,
\* failed ones included, its keys and the function of each key stay as
\* constructed, and a later lookup of a key gives the function it gave before.
TablesAreFrozen == [][TablesStay]_vars

FailuresAndLookupOnOneTable ==
    \E th1, th2 \in Threads :
        /\ tab[th1] = "CONVERT_BOHR_TO_METRES"
        /\ tab[th2] = "CONVERT_BOHR_TO_METRES"
        /\ pc[th1] = "panicked"
        /\ key[th1] = "parsec"
        /\ pc[th2] = "panicked"
        /\ out[th2] = Panicked(<<"Unkown prefix ", "km">>)
        /\ cell["CONVERT_BOHR_TO_METRES"].val = MapOfBlock(CONVERT_BOHR_TO_METRES, 2)

\* The thread is past call_once and uses the table.
UsesTable(th) == pc[th] \in {"have_table", "have_fn", "returned", "panicked"}

\* C10: each table is built once: its construction block is entered at most
\* once however many threads access it first, and a thread past the
\* initialization finds the table constructed, with both its entries.
TableInitializedOnce ==
    /\ \A tb \in Tables :
          /\ builds[tb] <= 1
          /\ Cardinality({th \in Threads :
                 tab[th] = tb /\ pc[th] \in {"new", "insert", "set", "complete"}}) <= 1
          /\ (once[tb] = "COMPLETE" =>
                 cell[tb] = [some |-> TRUE, val |-> MapOfBlock(InitBlock(tb), 2)])
    /\ \A th \in Threads :
          UsesTable(th) =>
              /\ cell[tab[th]].some
              /\ Cardinality(DOMAIN cell[tab[th]].val) = 2

RacingFirstAccessSeen ==
    \E th1, th2 \in Threads :
        /\ tab[th1] = "CONVERT_2_RCM_FROM"
        /\ tab[th2] = "CONVERT_2_RCM_FROM"
        /\ pc[th1] = "insert"
        /\ Cardinality(DOMAIN t[th1]) = 1
        /\ pc[th2] = "deref"
====
